---- MODULE Spec2Model ----
(***************************************************************************)
(* Model of the product service of clean-arch-go: the HTTP Create handler, *)
(* the Create and Fetch use cases, the Postgres product repository (Create *)
(* as listed in the README, Fetch from the repository package) and the     *)
(* product table they share.  Text values are sequences of character codes *)
(* so that the case-insensitive substring search and the lexicographic     *)
(* ordering are computed, not assumed.                                     *)
(***************************************************************************)
EXTENDS Integers, Sequences, FiniteSets, TLC

\* ------------------------------------------------------------------ bounds
MaxRows == 2
MaxPage == 2
MaxItemsPerPage == 2

\* ------------------------------------------------------------- text values
Nil == "nil"          \* a nil error

\* pointers: the nil pointer, or a pointer to v
NilPtr == <<>>
Ptr(v) == <<v>>
Deref(p) == p[1]

Min(a, b) == IF a < b THEN a ELSE b
Max(a, b) == IF a < b THEN b ELSE a

\* "a" = 97, "b" = 98, "B" = 66
LowerChar(c) == IF c >= 65 /\ c <= 90 THEN c + 32 ELSE c
Lower(s) == [i \in 1..Len(s) |-> LowerChar(s[i])]

Contains(s, t) ==
  \E i \in 0..(Len(s) - Len(t)) : \A j \in 1..Len(t) : s[i + j] = t[j]

RECURSIVE TextLess(_, _)
TextLess(s, t) ==
  IF t = <<>> THEN FALSE
  ELSE IF s = <<>> THEN TRUE
  ELSE IF s[1] # t[1] THEN s[1] < t[1]
  ELSE TextLess(Tail(s), Tail(t))

\* ------------------------------------------------------------ domain types
ZeroProduct == [ID |-> 0, Name |-> <<>>, Price |-> 0, Description |-> <<>>]

\* request bodies that decode: {name, price, description}
\* ("a", 1, ""), ("B", 2, ""), ("a", 1, "b")
Bodies ==
  { [Name |-> <<97>>, Price |-> 1, Description |-> <<>>],
    [Name |-> <<66>>, Price |-> 2, Description |-> <<>>],
    [Name |-> <<97>>, Price |-> 1, Description |-> <<98>>] }

ZeroRequest == [Name |-> <<>>, Price |-> 0, Description |-> <<>>]

Columns == {"id", "name", "price", "description"}
SortInputs == {"id", "name", "bogus"}
SearchTerms == {<<>>, <<98>>}

PaginationRequests ==
  [Page : 1..MaxPage, ItemsPerPage : 0..MaxItemsPerPage, Sort : SortInputs,
   Descending : BOOLEAN, Search : SearchTerms]

\* ------------------------------------------------------------ query builder
\* paginate.Paginate("SELECT * FROM product").Page(..).Desc(..).Sort(..)
\*   .RowsPerPage(..).SearchBy(search, "name", "description").Query()
Paginate(p) ==
  IF p.ItemsPerPage = 0
  THEN [err |-> "rows per page not given", query |-> NilPtr, queryCount |-> NilPtr]
  ELSE [err |-> Nil,
        query |-> Ptr([where |-> p.Search, orderBy |-> p.Sort,
                       desc |-> p.Descending, limit |-> p.ItemsPerPage,
                       offset |-> (p.Page - 1) * p.ItemsPerPage]),
        queryCount |-> Ptr([where |-> p.Search])]

\* --------------------------------------------------------- relational store
\* product(id serial primary key, name text, price numeric, description text)
Matches(row, term) ==
  \/ term = <<>>
  \/ Contains(Lower(row.Name), Lower(term))
  \/ Contains(Lower(row.Description), Lower(term))

Filter(tbl, term) == SelectSeq(tbl, LAMBDA r : Matches(r, term))

KeyLess(a, b, col) ==
  CASE col = "id" -> a.ID < b.ID
    [] col = "price" -> a.Price < b.Price
    [] col = "name" -> TextLess(a.Name, b.Name)
    [] col = "description" -> TextLess(a.Description, b.Description)
    [] OTHER -> FALSE

\* a before b in ORDER BY col [DESC]; rows with equal keys keep id order
Before(a, b, col, desc) ==
  IF KeyLess(a, b, col) THEN ~desc
  ELSE IF KeyLess(b, a, col) THEN desc
  ELSE a.ID < b.ID

RECURSIVE InsertSorted(_, _, _, _)
InsertSorted(r, s, col, desc) ==
  IF s = <<>> THEN <<r>>
  ELSE IF Before(r, s[1], col, desc) THEN <<r>> \o s
  ELSE <<s[1]>> \o InsertSorted(r, Tail(s), col, desc)

RECURSIVE OrderBy(_, _, _)
OrderBy(s, col, desc) ==
  IF s = <<>> THEN <<>>
  ELSE InsertSorted(s[1], OrderBy(Tail(s), col, desc), col, desc)

StatementValid(q) == q.orderBy \in Columns

ExecSelect(tbl, q) ==
  LET sorted == OrderBy(Filter(tbl, q.where), q.orderBy, q.desc)
  IN SubSeq(sorted, q.offset + 1, Min(q.offset + q.limit, Len(sorted)))

ExecCount(tbl, qc) == Len(Filter(tbl, qc.where))

ExecInsert(tbl, id, req) ==
  Append(tbl, [ID |-> id, Name |-> req.Name, Price |-> req.Price,
               Description |-> req.Description])

\* ------------------------------------------------------------------- state
VARIABLES
  table,      \* rows of product, in insertion order
  seq,        \* last value handed out by the id sequence (serial)
  cpc,        \* last HTTP Create: "idle" (none yet), "done", "panicked"
  cBody,      \* request body of the last HTTP Create
  cReq,       \* its productRequest (NilPtr for a nil pointer)
  resp,       \* its http.ResponseWriter: status, WriteHeader calls, body chunks
  createCall, \* what use case Create and repository Create were given and returned
  fpc,        \* Fetch: "idle", "select", "count", "returned"
  fReq,       \* paginationRequest given to use case Fetch
  fBuilt,     \* query, queryCount, err of the builder
  products,   \* products slice of repository Fetch
  total,      \* total of repository Fetch
  fetchCall,  \* what use case Fetch and repository Fetch were given and returned
  fetchLog,   \* steps taken by the running Fetch, in order
  selectRun,  \* what the store did for the SELECT of the running Fetch
  countRun    \* what the store did for the COUNT of the running Fetch

createVars == <<cpc, cBody, cReq, resp, createCall>>
fetchVars == <<fpc, fReq, fBuilt, products, total, fetchCall, fetchLog,
               selectRun, countRun>>
vars == <<table, seq, createVars, fetchVars>>

\* request bodies are given by what they decode to; Malformed does not decode
Malformed == <<>>
BodyOf(b) == <<b>>

NoResp == [status |-> 0, headerCalls |-> 0, body |-> <<>>]
\* a call that has not returned: no result and no error
NoReturn == [product |-> NilPtr, err |-> Nil]
NoPage == [result |-> NilPtr, err |-> Nil]
NoCreateCall == [ucCalls |-> 0, ucArg |-> NilPtr, repoCalls |-> 0, repoArg |-> NilPtr,
                 storeCalls |-> 0, before |-> <<>>, repoRet |-> NoReturn,
                 ucRet |-> NoReturn]
NoFetchCall == [ucCalls |-> 0, ucArg |-> NilPtr, repoCalls |-> 0, repoArg |-> NilPtr,
                repoRet |-> NoPage, ucRet |-> NoPage]
\* Go slices: the nil slice differs from the empty slice
NilSlice == [nil |-> TRUE, elems |-> <<>>]
EmptySlice == [nil |-> FALSE, elems |-> <<>>]
AppendSlice(s, x) == [nil |-> FALSE, elems |-> Append(s.elems, x)]

NotBuilt == [err |-> Nil, query |-> NilPtr, queryCount |-> NilPtr]
NoSelectRun == [issued |-> FALSE, queryErr |-> Nil, stmt |-> NilPtr, rows |-> <<>>,
                delivered |-> 0, rowsErr |-> FALSE, scanErrAt |-> 0, scanErrCol |-> 0,
                at |-> <<>>]
NoCountRun == [issued |-> FALSE, err |-> Nil, stmt |-> NilPtr, value |-> 0, at |-> <<>>]

Init ==
  /\ table = <<>>
  /\ seq = 0
  /\ cpc = "idle"
  /\ cBody = Malformed
  /\ cReq = NilPtr
  /\ resp = NoResp
  /\ createCall = NoCreateCall
  /\ fpc = "idle"
  /\ fReq = NilPtr
  /\ fBuilt = NotBuilt
  /\ products = EmptySlice
  /\ total = 0
  /\ fetchCall = NoFetchCall
  /\ fetchLog = <<>>
  /\ selectRun = NoSelectRun
  /\ countRun = NoCountRun

\* ------------------------------------------------------ http.ResponseWriter
WriteHeader(w, code) ==
  [w EXCEPT !.status = IF @ = 0 THEN code ELSE @, !.headerCalls = @ + 1]

Write(w, chunk) ==
  [w EXCEPT !.status = IF @ = 0 THEN 200 ELSE @, !.body = Append(@, chunk)]

Text(msg) == [kind |-> "text", value |-> msg]
Json(v) == [kind |-> "json", value |-> v]

\* --------------------------------------------------------------- DTO decode
\* dto.FromJSONCreateProductRequest(body): the decoded request, or an error
\* with either a nil or a zero-valued request
FromJSONCreateProductRequest(body) ==
  IF body = Malformed
  THEN { [req |-> NilPtr, err |-> "decode error"],
         [req |-> Ptr(ZeroRequest), err |-> "decode error"] }
  ELSE { [req |-> Ptr(body[1]), err |-> Nil] }

\* ------------------------------------------------------ repository Create
\* outcome of QueryRow(INSERT ... returning *).Scan(&product...)
RepositoryCreateReturnNoPrice(scanErr, row) ==
  IF scanErr # Nil
  THEN [product |-> NilPtr, err |-> scanErr]
  ELSE [product |-> Ptr([ID |-> row.ID, Name |-> row.Name, Price |-> 0,
                         Description |-> row.Description]),
        err |-> Nil]

RepositoryCreateReturn(scanErr, row) ==
  IF scanErr # Nil
  THEN [product |-> NilPtr, err |-> scanErr]
  ELSE [product |-> Ptr([ID |-> row.ID, Name |-> row.Name, Price |-> row.Price,
                         Description |-> row.Description]),
        err |-> Nil]

\* --------------------------------------------------------- use case Create
UsecaseCreateArg(productRequest) == productRequest

UsecaseCreateReturn(repoRet) ==
  IF repoRet.err # Nil
  THEN [product |-> NilPtr, err |-> repoRet.err]
  ELSE [product |-> repoRet.product, err |-> repoRet.err]

\* ------------------------------------------------------ HTTP Create handler
\* if err != nil { response.WriteHeader(500); response.Write([]byte(err.Error())) }
WriteError(w, err) ==
  IF err # Nil THEN Write(WriteHeader(w, 500), Text(err)) ELSE w

\* the second error branch and json.NewEncoder(response).Encode(product)
CreateRespond(w, err, product) == Write(WriteError(w, err), Json(product))

\* One POST /product: decode the body, first error branch, use case Create
\* down to the store, second error branch, encode.  Repository Create reads
\* productRequest.Name before the store call, so a nil request panics there
\* and the handler is abandoned with what it has written so far.
HttpCreate ==
  /\ cpc \in {"idle", "done", "panicked"}
  /\ Len(table) < MaxRows
  /\ \E body \in {BodyOf(b) : b \in Bodies} \cup {Malformed} :
     \E d \in FromJSONCreateProductRequest(body) :
       LET w == WriteError(NoResp, d.err)
           arg == UsecaseCreateArg(d.req)
       IN /\ cBody' = body
          /\ cReq' = d.req
          /\ IF arg = NilPtr
             THEN /\ cpc' = "panicked"
                  /\ resp' = w
                  /\ createCall' = [NoCreateCall EXCEPT !.ucCalls = 1, !.ucArg = d.req,
                                      !.repoCalls = 1, !.repoArg = arg,
                                      !.before = table]
                  /\ UNCHANGED <<table, seq>>
             ELSE \E scanErr \in {Nil, "insert failed"} :
                    LET id == seq + 1
                        tbl == IF scanErr = Nil THEN ExecInsert(table, id, Deref(arg))
                               ELSE table
                        row == IF scanErr = Nil THEN tbl[Len(tbl)] ELSE ZeroProduct
                        repoRet == RepositoryCreateReturn(scanErr, row)
                        ucRet == UsecaseCreateReturn(repoRet)
                    IN /\ table' = tbl
                       /\ seq' = IF scanErr = Nil THEN id ELSE seq
                       /\ createCall' = [ucCalls |-> 1, ucArg |-> d.req,
                                         repoCalls |-> 1, repoArg |-> arg,
                                         storeCalls |-> 1, before |-> table,
                                         repoRet |-> repoRet, ucRet |-> ucRet]
                       /\ resp' = CreateRespond(w, ucRet.err, ucRet.product)
                       /\ cpc' = "done"
  /\ UNCHANGED fetchVars

\* ------------------------------------------------------- repository Fetch
InitProductsNil == NilSlice

InitProducts == EmptySlice

\* rows.Scan(&product.ID, &product.Name, &product.Price, &product.Description)
\* on a fresh product: failCol = 0 scans all four columns, failCol = k fails
\* at column k and leaves the columns from k on at their zero value
ScanRow(row, failCol) ==
  [ID |-> IF failCol = 0 \/ failCol > 1 THEN row.ID ELSE 0,
   Name |-> IF failCol = 0 \/ failCol > 2 THEN row.Name ELSE <<>>,
   Price |-> IF failCol = 0 \/ failCol > 3 THEN row.Price ELSE 0,
   Description |-> IF failCol = 0 THEN row.Description ELSE <<>>]

\* for rows.Next() { product := domain.Product{}; rows.Scan(..);
\*                   products = append(products, product) }
\* over the first n rows, the scan of row failAt failing at column failCol
RECURSIVE ScanLoop(_, _, _, _, _, _)
ScanLoop(prods, rows, i, n, failAt, failCol) ==
  IF i > n THEN prods
  ELSE ScanLoop(AppendSlice(prods, ScanRow(rows[i], IF i = failAt THEN failCol ELSE 0)),
                rows, i + 1, n, failAt, failCol)

PaginationTotalOfPage(items, tot) == [Items |-> items, Total |-> Len(items.elems)]

Pagination(items, tot) == [Items |-> items, Total |-> tot]

RepositoryFetchFail(err) == [result |-> NilPtr, err |-> err]
RepositoryFetchReturn(items, tot) == [result |-> Ptr(Pagination(items, tot)), err |-> Nil]

\* ---------------------------------------------------------- use case Fetch
UsecaseFetchArg(paginationRequest) == paginationRequest

UsecaseFetchReturnSwallow(repoRet) == [result |-> repoRet.result, err |-> Nil]

UsecaseFetchReturn(repoRet) ==
  IF repoRet.err # Nil
  THEN [result |-> NilPtr, err |-> repoRet.err]
  ELSE [result |-> repoRet.result, err |-> Nil]

\* repository Fetch returns repoRet, and use case Fetch returns in turn
Returned(call, repoRet) ==
  [call EXCEPT !.repoRet = repoRet, !.ucRet = UsecaseFetchReturn(repoRet)]

\* use case Fetch is called and calls repository Fetch, which builds the
\* two statements
FetchBegin ==
  /\ fpc = "idle"
  /\ \E p \in PaginationRequests :
       LET arg == UsecaseFetchArg(Ptr(p))
           built == Paginate(Deref(arg))
           call == [ucCalls |-> fetchCall.ucCalls + 1, ucArg |-> Ptr(p),
                    repoCalls |-> fetchCall.repoCalls + 1, repoArg |-> arg,
                    repoRet |-> NoPage, ucRet |-> NoPage]
       IN /\ fReq' = Ptr(p)
          /\ fBuilt' = built
          /\ products' = InitProducts
          /\ total' = 0
          /\ fetchLog' = <<"build">>
          /\ IF built.err # Nil
             THEN /\ fetchCall' = Returned(call, RepositoryFetchFail(built.err))
                  /\ fpc' = "returned"
             ELSE /\ fetchCall' = call
                  /\ fpc' = "select"
  /\ UNCHANGED <<table, seq, createVars, selectRun, countRun>>

\* rows, err := repository.db.Query(ctx, *query) and the loop over the rows.
\* The store rejects a statement that orders by an unknown column; otherwise
\* the query may fail, the iteration may stop early with an error kept in
\* rows.Err(), and the scan of one row may fail.
SelectOutcomes(q, tbl) ==
  IF ~StatementValid(q)
  THEN { [queryErr |-> "column does not exist", rows |-> <<>>, delivered |-> 0,
          scanErrAt |-> 0, scanErrCol |-> 0] }
  ELSE { [queryErr |-> "query failed", rows |-> <<>>, delivered |-> 0,
          scanErrAt |-> 0, scanErrCol |-> 0] }
       \cup
       { [queryErr |-> Nil, rows |-> ExecSelect(tbl, q), delivered |-> n,
          scanErrAt |-> k, scanErrCol |-> IF k = 0 THEN 0 ELSE c] :
           n \in 0..Len(ExecSelect(tbl, q)), k \in 0..Len(ExecSelect(tbl, q)),
           c \in 1..2 }

\* if err != nil { return nil, err } after repository.db.Query
SelectNeverFailed(err) == FALSE

SelectFailed(err) == err # Nil

FetchSelect ==
  /\ fpc = "select"
  /\ LET q == Deref(fBuilt.query) IN
     \E o \in SelectOutcomes(q, table) :
       /\ o.scanErrAt <= o.delivered
       /\ selectRun' = [issued |-> TRUE, queryErr |-> o.queryErr, stmt |-> Ptr(q),
                        rows |-> o.rows, delivered |-> o.delivered,
                        rowsErr |-> o.delivered < Len(o.rows),
                        scanErrAt |-> o.scanErrAt, scanErrCol |-> o.scanErrCol,
                        at |-> table]
       /\ fetchLog' = Append(fetchLog, "select")
       /\ IF SelectFailed(o.queryErr)
          THEN /\ fetchCall' = Returned(fetchCall, RepositoryFetchFail(o.queryErr))
               /\ fpc' = "returned"
               /\ products' = products
          ELSE /\ products' = ScanLoop(products, o.rows, 1, o.delivered,
                                       o.scanErrAt, o.scanErrCol)
               /\ fetchCall' = fetchCall
               /\ fpc' = "count"
  /\ UNCHANGED <<table, seq, createVars, fReq, fBuilt, total, countRun>>

\* err := repository.db.QueryRow(ctx, *queryCount).Scan(&total) and the return
FetchCount ==
  /\ fpc = "count"
  /\ LET qc == Deref(fBuilt.queryCount) IN
     \E err \in {Nil, "count failed"} :
       /\ countRun' = [issued |-> TRUE, err |-> err, stmt |-> Ptr(qc),
                       value |-> IF err = Nil THEN ExecCount(table, qc) ELSE 0,
                       at |-> table]
       /\ fetchLog' = Append(fetchLog, "count")
       /\ total' = IF err = Nil THEN countRun'.value ELSE total
       /\ fetchCall' = Returned(fetchCall,
                         IF err # Nil THEN RepositoryFetchFail(err)
                         ELSE RepositoryFetchReturn(products, total'))
       /\ fpc' = "returned"
  /\ UNCHANGED <<table, seq, createVars, fReq, fBuilt, products, selectRun>>

\* the caller has its answer; next request
FetchNextRequest ==
  /\ fpc = "returned"
  /\ fpc' = "idle"
  /\ fReq' = NilPtr
  /\ fBuilt' = NotBuilt
  /\ products' = EmptySlice
  /\ total' = 0
  /\ fetchCall' = NoFetchCall
  /\ fetchLog' = <<>>
  /\ selectRun' = NoSelectRun
  /\ countRun' = NoCountRun
  /\ UNCHANGED <<table, seq, createVars>>

\* ----------------------------------------------------------- specification
Next ==
  \/ HttpCreate
  \/ FetchBegin
  \/ FetchSelect
  \/ FetchCount
  \/ FetchNextRequest

Spec == Init /\ [][Next]_vars

\* =================================================================== claims
CreateAnswered == cpc \in {"done", "panicked"}
DecodeFailed == CreateAnswered /\ cBody = Malformed
CreateFailed == cpc = "done" /\ createCall.ucRet.err # Nil
CreateSucceeded == cpc = "done" /\ createCall.ucRet.err = Nil

FetchReturned == fpc = "returned"
FetchSucceeded == fpc = "returned" /\ fetchCall.repoRet.err = Nil
FetchFailed == fpc = "returned" /\ fetchCall.repoRet.err # Nil

\* number of rows of tbl whose name or description contains term,
\* letter case ignored
MatchingRows(tbl, term) ==
  Cardinality({ i \in 1..Len(tbl) :
                  \/ Contains(Lower(tbl[i].Name), Lower(term))
                  \/ Contains(Lower(tbl[i].Description), Lower(term)) })

\* C1: once HTTP Create has answered, (a) after a decoding failure the use
\* case was not invoked; (b) after a decoding failure or a use case error the
\* response is status 500, set once, with the error message as its whole
\* body; (c) otherwise it is status 200 with the created entity as JSON.
C1_CreateAnswersErrorOrEntity ==
  CreateAnswered =>
    /\ DecodeFailed => createCall.ucCalls = 0
    /\ (DecodeFailed \/ CreateFailed) =>
         /\ resp.status = 500
         /\ resp.headerCalls = 1
         /\ Len(resp.body) = 1
         /\ resp.body[1].kind = "text"
    /\ (~DecodeFailed /\ CreateSucceeded) =>
         /\ resp.status = 200
         /\ Len(resp.body) = 1
         /\ resp.body[1].kind = "json"
         /\ resp.body[1].value = createCall.ucRet.product

\* C2: a Fetch during which the SELECT failed, the scan of a row failed, the
\* row iteration failed or the COUNT failed returns an error and a nil result.
C2_FetchFailsOnAnyStoreFailure ==
  FetchReturned =>
    ( ( \/ selectRun.queryErr # Nil
        \/ selectRun.scanErrAt # 0
        \/ selectRun.rowsErr
        \/ countRun.err # Nil )
      => /\ fetchCall.repoRet.err # Nil
         /\ fetchCall.repoRet.result = NilPtr )

\* C3: a Fetch whose sort field is not a product column sends neither the
\* SELECT nor the COUNT to the store, and returns an error and a nil result.
C3_UnknownSortNeverReachesStore ==
  (fReq # NilPtr /\ Deref(fReq).Sort \notin Columns) =>
    /\ ~selectRun.issued
    /\ ~countRun.issued
    /\ FetchReturned => /\ fetchCall.repoRet.err # Nil
                        /\ fetchCall.repoRet.result = NilPtr

\* C4: a successful Fetch used offset = (page-1)*itemsPerPage and
\* limit = itemsPerPage, and its items are exactly the rows at positions
\* offset+1 .. offset+itemsPerPage of the filtered, sorted rows the SELECT
\* saw, so that len(items) = min(itemsPerPage, max(0, matching - offset)).
C4_ItemsAreTheRequestedPage ==
  FetchSucceeded =>
    LET p == Deref(fReq)
        q == Deref(selectRun.stmt)
        offset == (p.Page - 1) * p.ItemsPerPage
        all == OrderBy(Filter(selectRun.at, p.Search), p.Sort, p.Descending)
        items == Deref(fetchCall.repoRet.result).Items.elems
    IN /\ q.offset = offset
       /\ q.limit = p.ItemsPerPage
       /\ items = SubSeq(all, offset + 1, Min(offset + p.ItemsPerPage, Len(all)))
       /\ Len(items) = Min(p.ItemsPerPage, Max(0, Len(all) - offset))

\* C5: the total of a successful Fetch is the number of rows, of the table
\* the COUNT ran on, whose name or description contains the search term;
\* with an empty search term it is the number of all rows.
C5_TotalIsMatchingRowCount ==
  FetchSucceeded =>
    LET p == Deref(fReq)
        tot == Deref(fetchCall.repoRet.result).Total
    IN /\ tot = MatchingRows(countRun.at, p.Search)
       /\ p.Search = <<>> => tot = Len(countRun.at)

\* a filtered count below the table size, on a page shorter than the total
C5_Witness ==
  /\ FetchSucceeded
  /\ Deref(fReq).Search # <<>>
  /\ Deref(fetchCall.repoRet.result).Total = 1
  /\ Len(countRun.at) = 2
  /\ Deref(fReq).Page = 2

IsPrefix(s, t) == Len(s) <= Len(t) /\ SubSeq(t, 1, Len(s)) = s

\* C6 as claimed: the total of a successful Fetch counts only rows of the
\* table the SELECT saw.
C6_TotalCountsOnlyRowsSelectSaw ==
  FetchSucceeded =>
    Deref(fetchCall.repoRet.result).Total
      = MatchingRows(selectRun.at, Deref(fReq).Search)

\* C6 as amended: the table the COUNT ran on is the table the SELECT saw
\* followed by the rows created in between, and total is the matching rows
\* the SELECT saw plus the matching rows created in between.
C6_TotalCountsRowsCreatedSinceSelect ==
  FetchSucceeded =>
    LET term == Deref(fReq).Search
        since == SubSeq(countRun.at, Len(selectRun.at) + 1, Len(countRun.at))
    IN /\ IsPrefix(selectRun.at, countRun.at)
       /\ Deref(fetchCall.repoRet.result).Total
            = MatchingRows(selectRun.at, term) + MatchingRows(since, term)

\* a matching row was created between the SELECT and the COUNT
C6_Witness ==
  /\ FetchSucceeded
  /\ Len(countRun.at) > Len(selectRun.at)
  /\ Deref(fetchCall.repoRet.result).Total
       > MatchingRows(selectRun.at, Deref(fReq).Search)

\* C7: a successful Create made one store call, appended one row to the
\* table leaving the rows before it as they were, and returned that row: its
\* name, price and description are the request's, its identifier differs
\* from every earlier row's.  All identifiers in the table are pairwise
\* distinct.  A failed Create returned a nil entity and the store's error.
C7_CreateRoundTrip ==
  /\ CreateSucceeded =>
       LET req == Deref(cReq)
           product == Deref(createCall.ucRet.product)
       IN /\ createCall.storeCalls = 1
          /\ Len(table) = Len(createCall.before) + 1
          /\ IsPrefix(createCall.before, table)
          /\ table[Len(table)] = product
          /\ product.Name = req.Name
          /\ product.Price = req.Price
          /\ product.Description = req.Description
          /\ product.ID > 0
          /\ \A i \in 1..Len(createCall.before) : createCall.before[i].ID # product.ID
  /\ \A i, j \in 1..Len(table) : i # j => table[i].ID # table[j].ID
  /\ CreateFailed =>
       /\ createCall.ucRet.product = NilPtr
       /\ createCall.ucRet.err = createCall.repoRet.err
       /\ table = createCall.before

\* a Create that succeeded on a table that already had a row
C7_Witness ==
  /\ CreateSucceeded
  /\ Len(createCall.before) = 1
  /\ Deref(cReq).Price = 2

C9_UsecasesPassThrough ==
  /\ CreateAnswered =>
       /\ createCall.repoCalls = 1
       /\ createCall.repoArg = createCall.ucArg
  /\ cpc = "done" =>
       createCall.ucRet = IF createCall.repoRet.err # Nil
                          THEN [product |-> NilPtr, err |-> createCall.repoRet.err]
                          ELSE createCall.repoRet
  /\ fpc # "idle" =>
       /\ fetchCall.repoCalls = 1
       /\ fetchCall.repoArg = fetchCall.ucArg
  /\ FetchReturned =>
       fetchCall.ucRet = IF fetchCall.repoRet.err # Nil
                         THEN [result |-> NilPtr, err |-> fetchCall.repoRet.err]
                         ELSE fetchCall.repoRet

\* a failed repository Fetch next to a successful repository Create
C9_Witness ==
  /\ FetchFailed
  /\ countRun.err # Nil
  /\ CreateSucceeded

\* C10: repository Fetch and use case Fetch return exactly one of result and
\* error.  On success Items is a non-nil slice holding, in order, what the
\* scan of each delivered row left in its product, and Total is the value
\* scanned from the COUNT.
C10_FetchReturnsResultXorError ==
  FetchReturned =>
    /\ (fetchCall.repoRet.result = NilPtr) <=> (fetchCall.repoRet.err # Nil)
    /\ (fetchCall.ucRet.result = NilPtr) <=> (fetchCall.ucRet.err # Nil)
    /\ FetchSucceeded =>
         LET page == Deref(fetchCall.ucRet.result)
         IN /\ ~page.Items.nil
            /\ Len(page.Items.elems) = selectRun.delivered
            /\ \A i \in 1..selectRun.delivered :
                 page.Items.elems[i]
                   = ScanRow(selectRun.rows[i],
                             IF i = selectRun.scanErrAt THEN selectRun.scanErrCol ELSE 0)
            /\ page.Total = countRun.value

\* a successful Fetch of a page past the last row of a non-empty table
C10_Witness ==
  /\ FetchSucceeded
  /\ Len(selectRun.at) > 0
  /\ Deref(fReq).Page = 2
  /\ Deref(fetchCall.ucRet.result).Items.elems = <<>>
  /\ Deref(fetchCall.ucRet.result).Total > 0
====
